---- MODULE Spec2Model ----
(***************************************************************************)
(* A model of voicery.py, the client of the Voicery text-to-speech API:    *)
(* the Voicery handle (key, available_speakers), get_available_speakers(), *)
(* the generator stream() and synthesize().  The network (requests), the   *)
(* file system (open) and a caller-supplied handle are the environment:    *)
(* every answer they can give is a nondeterministic choice.                *)
(***************************************************************************)
EXTENDS Integers, Sequences, FiniteSets, TLC

VARIABLES
    key,                 \* self.key of each handle: a string, or "None"
    available_speakers,  \* self.available_speakers of each handle
    calls,               \* get_available_speakers() invocations per handle
    gets,                \* GET /speakers requests issued per handle
    fetched,             \* per handle: the JSON array the cache was built from
    gens,                \* the live generator objects stream() returned
    syn,                 \* the synthesize() calls made, the last one in progress
    files,               \* the file system: per path, whether it exists and its bytes
    handles,             \* the paths open() returned a handle of, not yet closed
    sink,                \* the bytes written to the caller-supplied handle
    streams,             \* stream() calls made so far
    started,             \* generators whose body ran past the validation
    posts                \* POST /generate requests issued so far

speakerVars == <<available_speakers, calls, gets, fetched>>
streamVars == <<gens, streams>>
netVars == <<started, posts>>
synthVars == <<syn, files, handles, sink>>
vars == <<key, speakerVars, streamVars, netVars, synthVars>>

(***************************************************************************)
(* Bounds of the model.                                                    *)
(***************************************************************************)
MaxCalls == 2      \* get_available_speakers() invocations per handle
MaxSpeakers == 2   \* speaker objects in one GET /speakers response
MaxStyles == 2     \* style objects of one speaker object

SeqsUpTo(S, n) == UNION {[1..k -> S] : k \in 0..n}

Clients == {"c1", "c2"}

\* the paths a caller passes as output: "old.mp3" exists at the start
Paths == {"old.mp3", "new.mp3"}

VOICERY_URL == "https://api.voicery.com"

(***************************************************************************)
(* What the server can answer to GET /speakers.                            *)
(***************************************************************************)
StyleObjects == {[id |-> "calm", name |-> "Calm"],
                 [id |-> "excited", name |-> "Excited"]}

SpeakerObjects ==
    [id : {"s1", "s2"}, name : {"Ann"}, gender : {"F"}, lang : {"en"},
     styles : SeqsUpTo(StyleObjects, MaxStyles)]

\* The body is not JSON, a JSON object (the usual error body) or a JSON array
\* of speaker objects.  The code never reads the status of the response.
SpeakerResponses ==
    [kind : {"notjson", "object"}, list : {<<>>}]
    \cup [kind : {"list"}, list : SeqsUpTo(SpeakerObjects, MaxSpeakers)]

EmptyDict == [k \in {} |-> k]

NoneSpeakers == [cached |-> FALSE, map |-> EmptyDict]

\* the last index of seq whose id is k: a dict literal keeps the last value
LastWithId(seq, k) ==
    CHOOSE i \in DOMAIN seq :
        /\ seq[i].id = k
        /\ \A j \in DOMAIN seq : seq[j].id = k => j <= i

\* Style(id=style["id"], name=style["name"])
Style(style) == [id |-> style.id, name |-> style.name]

\* {style["id"]: Style(...) for style in speaker["styles"]}
StylesDict(styles) ==
    [k \in {styles[i].id : i \in DOMAIN styles} |->
        Style(styles[LastWithId(styles, k)])]

DefaultStyleLast(speaker) == speaker.styles[Len(speaker.styles)].id

\* speaker["styles"][0]["id"]
DefaultStyle(speaker) == speaker.styles[1].id

\* Speaker(id=..., name=..., gender=..., language=..., styles=..., default_style=...)
Speaker(speaker) ==
    [id |-> speaker.id, name |-> speaker.name, gender |-> speaker.gender,
     language |-> speaker.lang, styles |-> StylesDict(speaker.styles),
     default_style |-> DefaultStyle(speaker)]

\* the dict comprehension over result
SpeakersDict(result) ==
    [k \in {result[i].id : i \in DOMAIN result} |->
        Speaker(result[LastWithId(result, k)])]

\* what .json() and the comprehension raise, "ok" when they raise nothing
ParseOutcome(resp) ==
    IF resp.kind = "notjson" THEN "JSONDecodeError"
    ELSE IF resp.kind = "object" THEN "TypeError"
    ELSE IF \E i \in DOMAIN resp.list : resp.list[i].styles = <<>>
         THEN "IndexError"
    ELSE "ok"

\* {} or {"Authorization": f"Bearer {self.key}"}
Headers(c) ==
    IF key[c] = "None" THEN "none" ELSE "Bearer " \o key[c]

Init ==
    /\ key = [c \in Clients |-> IF c = "c1" THEN "None" ELSE "secret"]
    /\ available_speakers = [c \in Clients |-> NoneSpeakers]
    /\ calls = [c \in Clients |-> 0]
    /\ gets = [c \in Clients |-> 0]
    /\ fetched = [c \in Clients |-> <<>>]
    /\ gens = <<>>
    /\ streams = 0
    /\ started = 0
    /\ posts = 0
    /\ syn = <<>>
    /\ files = [p \in Paths |-> IF p = "old.mp3"
                                THEN [exists |-> TRUE, content |-> <<"z">>]
                                ELSE [exists |-> FALSE, content |-> <<>>]]
    /\ handles = {}
    /\ sink = <<>>

CacheHitShared(c) == \E d \in Clients : available_speakers[d].cached

\* self.available_speakers is not None
CacheHit(c) == available_speakers[c].cached

\* the early return of get_available_speakers(): no request
SpeakersCached(c) ==
    /\ CacheHit(c)
    /\ UNCHANGED <<available_speakers, gets, fetched>>

\* requests.get raises: nothing is stored
SpeakersTransportError(c) ==
    /\ ~CacheHit(c)
    /\ gets' = [gets EXCEPT ![c] = @ + 1]
    /\ UNCHANGED <<available_speakers, fetched>>

\* requests.get answers resp; .json() and the comprehension run on it
SpeakersFetch(c, resp) ==
    /\ ~CacheHit(c)
    /\ gets' = [gets EXCEPT ![c] = @ + 1]
    /\ IF ParseOutcome(resp) = "ok"
       THEN /\ available_speakers' =
                  [available_speakers EXCEPT
                     ![c] = [cached |-> TRUE, map |-> SpeakersDict(resp.list)]]
            /\ fetched' = [fetched EXCEPT ![c] = resp.list]
       ELSE UNCHANGED <<available_speakers, fetched>>

get_available_speakers(c) ==
    /\ calls[c] < MaxCalls
    /\ calls' = [calls EXCEPT ![c] = @ + 1]
    /\ UNCHANGED <<key, streamVars, netVars, synthVars>>
    /\ \/ SpeakersCached(c)
       \/ SpeakersTransportError(c)
       \/ \E resp \in SpeakerResponses : SpeakersFetch(c, resp)

NextSpeakers == \E c \in Clients : get_available_speakers(c)

SpecSpeakers == Init /\ [][NextSpeakers]_vars

(***************************************************************************)
(* stream(): the arguments a caller can pass.  A Python value is a record  *)
(* of its type t and its content.                                          *)
(***************************************************************************)
\* the ids the server knows ("s1", "s2" of SpeakerObjects); "zz" is unknown
KnownSpeakerIds == {o.id : o \in SpeakerObjects}

SpeakerArgs == {[t |-> "str", id |-> "s1"], [t |-> "str", id |-> "zz"],
                [t |-> "Speaker", id |-> "s1"], [t |-> "int", id |-> "7"]}

StyleArgs == {[t |-> "None", id |-> ""], [t |-> "str", id |-> "calm"],
              [t |-> "Style", id |-> "calm"], [t |-> "int", id |-> "7"]}

EncodingArgs == {"mp3", "wav", "pcm", "ogg"}

\* a number n (+ 1/2 when half) of type int or float, or the string of n
SampleRateArgs ==
    {[t |-> "int", n |-> 8000, half |-> FALSE],
     [t |-> "int", n |-> 16000, half |-> FALSE],
     [t |-> "int", n |-> 24000, half |-> FALSE],
     [t |-> "int", n |-> 44100, half |-> FALSE],
     [t |-> "float", n |-> 8000, half |-> FALSE],
     [t |-> "float", n |-> 8000, half |-> TRUE],
     [t |-> "str", n |-> 8000, half |-> FALSE]}

SsmlArgs == {[t |-> "bool", v |-> "True"], [t |-> "bool", v |-> "False"],
             [t |-> "str", v |-> "yes"], [t |-> "str", v |-> ""]}

Texts == {"hi"}

StreamArgs ==
    [speaker : SpeakerArgs, text : Texts, style : StyleArgs,
     encoding : EncodingArgs, sample_rate : SampleRateArgs, ssml : SsmlArgs]

\* x in [8000, 16000, 24000]: == between numbers is by value, a str equals none
InSampleRates(x) ==
    /\ x.t \in {"int", "float"}
    /\ ~x.half
    /\ x.n \in {8000, 16000, 24000}

InEncodings(e) == e \in {"mp3", "wav", "pcm"}

\* int(sample_rate) of a number: truncation
PyInt(x) == x.n

\* bool(ssml): the truth value of a Python object
PyBool(x) == IF x.t = "bool" THEN x.v = "True" ELSE x.v # ""

\* Validate with the check of the encoding left out
ValidateNoEncoding(a) ==
    IF a.speaker.t \notin {"Speaker", "str"} THEN "speaker"
    ELSE IF a.style.t \notin {"None", "Style", "str"} THEN "style"
    ELSE IF ~InSampleRates(a.sample_rate) THEN "sample_rate"
    ELSE "ok"

\* Validate with only the Speaker record resolved, the type of any other
\* speaker argument left unchecked
ValidateNoSpeaker(a) ==
    IF a.style.t \notin {"None", "Style", "str"} THEN "style"
    ELSE IF ~InEncodings(a.encoding) THEN "encoding"
    ELSE IF ~InSampleRates(a.sample_rate) THEN "sample_rate"
    ELSE "ok"

\* lines 87-104: the first check that fails, "ok" when none does
Validate(a) ==
    IF a.speaker.t \notin {"Speaker", "str"} THEN "speaker"
    ELSE IF a.style.t \notin {"None", "Style", "str"} THEN "style"
    ELSE IF ~InEncodings(a.encoding) THEN "encoding"
    ELSE IF ~InSampleRates(a.sample_rate) THEN "sample_rate"
    ELSE "ok"

\* RequestData with the style field set whether or not a style was passed
RequestDataAlwaysStyle(a) ==
    [text |-> a.text, speaker |-> a.speaker.id, encoding |-> a.encoding,
     sampleRate |-> PyInt(a.sample_rate), ssml |-> PyBool(a.ssml),
     style |-> a.style.id]

\* lines 111-119: the JSON body; speaker and style are the ids by now
RequestData(a) ==
    [text |-> a.text, speaker |-> a.speaker.id, encoding |-> a.encoding,
     sampleRate |-> PyInt(a.sample_rate), ssml |-> PyBool(a.ssml)]
    @@ (IF a.style.t # "None" THEN [style |-> a.style.id] ELSE EmptyDict)

\* requests.post(VOICERY_URL + "/generate", stream=True, json=data, headers=headers)
PostRequest(c, a) ==
    [url |-> VOICERY_URL \o "/generate", data |-> RequestData(a),
     headers |-> Headers(c)]

(***************************************************************************)
(* The response body of POST /generate arrives in chunks of 1..ChunkSize   *)
(* bytes (chunk_size=4 * 1024, scaled down); after any chunk the transport *)
(* delivers another one, closes the body or fails.                         *)
(***************************************************************************)
ChunkSize == 2
MaxChunks == 2     \* chunks in one response body
MaxStreams == 2    \* stream() calls in a behaviour
MaxLive == 1       \* generator objects the caller holds at a time

Bytes == {"a", "b"}

Chunks == UNION {[1..k -> Bytes] : k \in 1..ChunkSize}

\* HTTP status of the response: success, or an error (rate limit, bad key)
Statuses == {200, 429}

\* NewGenerator of a plain function: the validation runs in the call
NewGeneratorEager(c, a) ==
    [client |-> c, args |-> a,
     pc |-> IF Validate(a) = "ok" THEN "created" ELSE "raised",
     error |-> IF Validate(a) = "ok" THEN "" ELSE "VoiceryError:" \o Validate(a),
     nexts |-> 0, request |-> <<>>, status |-> 0, yielded |-> <<>>]

\* the generator object a call of stream() returns: nothing has run yet
NewGenerator(c, a) ==
    [client |-> c, args |-> a, pc |-> "created", error |-> "", nexts |-> 0,
     request |-> <<>>, status |-> 0, yielded |-> <<>>]

\* what request.iter_content delivers next: ev is a chunk, "close" or "fail"
ReadEvents(g) ==
    [kind : {"close", "fail"}, chunk : {<<>>}]
    \cup IF Len(g.yielded) < MaxChunks
         THEN [kind : {"chunk"}, chunk : Chunks] ELSE {}

\* yield from request.iter_content(...): one resumption of the generator
IterContent(g, ev) ==
    IF ev.kind = "chunk"
    THEN [g EXCEPT !.pc = "suspended", !.yielded = Append(@, ev.chunk)]
    ELSE IF ev.kind = "close"
    THEN [g EXCEPT !.pc = "done"]
    ELSE [g EXCEPT !.pc = "raised", !.error = "ChunkedEncodingError"]

\* the first next() of the generator: lines 87-124 up to the first yield
FirstNext(g) ==
    IF Validate(g.args) # "ok"
    THEN {[gen |-> [g EXCEPT !.pc = "raised",
                             !.error = "VoiceryError:" \o Validate(g.args)],
           posts |-> 0, started |-> 0]}
    ELSE LET sent == [g EXCEPT !.request = <<PostRequest(g.client, g.args)>>]
         IN  \* requests.post raises
             {[gen |-> [sent EXCEPT !.pc = "raised", !.error = "ConnectionError"],
               posts |-> 1, started |-> 1]}
             \cup
             \* the server answers; the status is never looked at
             {[gen |-> IterContent([sent EXCEPT !.status = st], ev),
               posts |-> 1, started |-> 1] :
                 st \in Statuses, ev \in ReadEvents(g)}

\* a later next(): the generator resumes after its yield
Resume(g) ==
    {[gen |-> IterContent(g, ev), posts |-> 0, started |-> 0] :
        ev \in ReadEvents(g)}

\* next(gen) by the caller: every way one resumption of the generator can
\* end; nexts counts the caller's next() calls
GeneratorNext(g) ==
    LET h == [g EXCEPT !.nexts = @ + 1]
    IN  IF g.pc = "created" THEN FirstNext(h)
        ELSE IF g.pc = "suspended" THEN Resume(h)
        ELSE {}

\* the caller may make another call of stream()
CanStream == streams < MaxStreams /\ Len(gens) < MaxLive

\* stream(...): a generator function only creates the generator object
StreamCall(c, a) ==
    /\ CanStream
    /\ streams' = streams + 1
    /\ gens' = Append(gens, NewGenerator(c, a))
    /\ UNCHANGED <<key, speakerVars, netVars, synthVars>>

\* next(gen) on a generator the caller holds
GenNext(i) ==
    /\ \E r \in GeneratorNext(gens[i]) :
          /\ gens' = [gens EXCEPT ![i] = r.gen]
          /\ posts' = posts + r.posts
          /\ started' = started + r.started
    /\ UNCHANGED <<key, speakerVars, streams, synthVars>>

\* the caller lets go of a generator (at any point of its life)
DropGenerator(i) ==
    /\ gens' = [j \in 1..(Len(gens) - 1) |-> IF j < i THEN gens[j] ELSE gens[j + 1]]
    /\ UNCHANGED <<key, speakerVars, streams, netVars, synthVars>>

NextStream ==
    \/ /\ CanStream
       /\ \E c \in Clients, a \in StreamArgs : StreamCall(c, a)
    \/ \E i \in DOMAIN gens : GenNext(i)
    \/ \E i \in DOMAIN gens : DropGenerator(i)

SpecStream == Init /\ [][NextStream]_vars

(***************************************************************************)
(* synthesize(): line 145 drains the generator, one next() at a time, and  *)
(* lines 146-154 deliver the bytes.  The call blocks its caller: nothing   *)
(* else runs until it has returned or raised.                              *)
(***************************************************************************)
MaxSynth == 1      \* synthesize() calls in a behaviour

OutputArgs == {[t |-> "None", path |-> ""], [t |-> "handle", path |-> ""]}
              \cup [t : {"str"}, path : Paths]

RECURSIVE JoinFrom(_, _)
JoinFrom(chunks, i) ==
    IF i > Len(chunks) THEN <<>> ELSE chunks[i] \o JoinFrom(chunks, i + 1)

RECURSIVE JoinBackFrom(_, _)
JoinBackFrom(chunks, i) ==
    IF i < 1 THEN <<>> ELSE chunks[i] \o JoinBackFrom(chunks, i - 1)

\* Join with the chunks taken last to first
JoinReversed(chunks) == JoinBackFrom(chunks, Len(chunks))

\* b"".join(chunks)
Join(chunks) == JoinFrom(chunks, 1)

Prefixes(data) == {SubSeq(data, 1, k) : k \in 0..Len(data)}

NoneValue == [t |-> "None", v |-> <<>>]

Running == syn # <<>> /\ syn[Len(syn)].pc \notin {"returned", "raised"}

Current == syn[Len(syn)]

SetCurrent(r) == syn' = [syn EXCEPT ![Len(syn)] = r]

\* the caller is free to call synthesize() (the previous call has ended)
CanSynthesize == ~Running /\ Len(syn) < MaxSynth

\* SynthCall with the output file opened before the stream is drained
SynthCallOpenFirst(c, a, out) ==
    /\ CanSynthesize
    /\ syn' = Append(syn, [gen |-> NewGenerator(c, a), output |-> out,
                           pc |-> "draining", data |-> <<>>, ret |-> NoneValue,
                           error |-> "", existed |-> FALSE,
                           filesAtCall |-> files, sinkAtCall |-> sink])
    /\ files' = IF out.t = "str"
                THEN [files EXCEPT ![out.path] = [exists |-> TRUE, content |-> <<>>]]
                ELSE files
    /\ UNCHANGED <<key, speakerVars, streamVars, netVars, handles, sink>>

\* synthesize(speaker, text, output=..., **kwargs) is entered: self.stream(...)
\* makes the generator that join() will drain
SynthCall(c, a, out) ==
    /\ CanSynthesize
    /\ syn' = Append(syn, [gen |-> NewGenerator(c, a), output |-> out,
                           pc |-> "draining", data |-> <<>>, ret |-> NoneValue,
                           error |-> "", existed |-> FALSE,
                           filesAtCall |-> files, sinkAtCall |-> sink])
    /\ UNCHANGED <<key, speakerVars, streamVars, netVars, files, handles, sink>>

\* line 145: join() asks the generator for its next chunk
SynthDrain ==
    /\ Running
    /\ Current.pc = "draining"
    /\ \E r \in GeneratorNext(Current.gen) :
          /\ posts' = posts + r.posts
          /\ started' = started + r.started
          /\ SetCurrent(
               IF r.gen.pc = "raised"
               THEN [Current EXCEPT !.gen = r.gen, !.pc = "raised",
                                    !.error = r.gen.error]
               ELSE IF r.gen.pc = "done"
               THEN [Current EXCEPT !.gen = r.gen, !.pc = "joined",
                                    !.data = Join(r.gen.yielded)]
               ELSE [Current EXCEPT !.gen = r.gen])
    /\ UNCHANGED <<key, speakerVars, streamVars, files, handles, sink>>

\* lines 146-147: return data
SynthReturnData ==
    /\ Current.output.t = "None"
    /\ SetCurrent([Current EXCEPT !.pc = "returned",
                                  !.ret = [t |-> "bytes", v |-> Current.data]])
    /\ UNCHANGED <<files, handles, sink>>

\* line 149: open(output, "wb") raises
SynthOpenFails ==
    /\ Current.output.t = "str"
    /\ SetCurrent([Current EXCEPT !.pc = "raised", !.error = "OSError"])
    /\ UNCHANGED <<files, handles, sink>>

\* line 149: open(output, "wb") creates the file or truncates it
SynthOpen ==
    /\ Current.output.t = "str"
    /\ SetCurrent([Current EXCEPT !.pc = "opened",
                                  !.existed = files[Current.output.path].exists])
    /\ files' = [files EXCEPT ![Current.output.path] =
                   [exists |-> TRUE, content |-> <<>>]]
    /\ handles' = handles \cup {Current.output.path}
    /\ UNCHANGED sink

\* line 152: output.write(data) on the caller's handle, which may raise
SynthSinkWrite(ok) ==
    /\ Current.output.t = "handle"
    /\ IF ok
       THEN /\ sink' = sink \o Current.data
            /\ SetCurrent([Current EXCEPT !.pc = "returned"])
       ELSE /\ UNCHANGED sink
            /\ SetCurrent([Current EXCEPT !.pc = "raised", !.error = "OSError"])
    /\ UNCHANGED <<files, handles>>

\* lines 146-152, once join() has returned
SynthOutput ==
    /\ Running
    /\ Current.pc = "joined"
    /\ \/ SynthReturnData
       \/ SynthOpenFails
       \/ SynthOpen
       \/ \E ok \in BOOLEAN : SynthSinkWrite(ok)
    /\ UNCHANGED <<key, speakerVars, streamVars, netVars>>

\* WithExitRaise of a bare open()/write()/close(): close() is skipped
WithExitLeak(path) == handles' = handles

\* the with statement's exit on an exception: the handle is closed
WithExitRaise(path) == handles' = handles \ {path}

\* line 150: handle.write(data); a failed write leaves some of the bytes
SynthWrite ==
    /\ Running
    /\ Current.pc = "opened"
    /\ \/ /\ SetCurrent([Current EXCEPT !.pc = "written"])
          /\ UNCHANGED <<files, handles>>
       \/ /\ \E part \in Prefixes(Current.data) \ {Current.data} :
                files' = [files EXCEPT ![Current.output.path].content = part]
          /\ WithExitRaise(Current.output.path)
          /\ SetCurrent([Current EXCEPT !.pc = "raised", !.error = "OSError"])
    /\ UNCHANGED <<key, speakerVars, streamVars, netVars, sink>>

\* the end of the with block: the handle is flushed and closed, then
\* line 154 returns None; a failed flush leaves some of the bytes and raises,
\* the handle closed all the same
SynthClose ==
    /\ Running
    /\ Current.pc = "written"
    /\ \/ /\ files' = [files EXCEPT ![Current.output.path].content = Current.data]
          /\ handles' = handles \ {Current.output.path}
          /\ SetCurrent([Current EXCEPT !.pc = "returned"])
       \/ /\ \E part \in Prefixes(Current.data) \ {Current.data} :
                files' = [files EXCEPT ![Current.output.path].content = part]
          /\ WithExitRaise(Current.output.path)
          /\ SetCurrent([Current EXCEPT !.pc = "raised", !.error = "OSError"])
    /\ UNCHANGED <<key, speakerVars, streamVars, netVars, sink>>

NextSynth ==
    \/ /\ CanSynthesize
       /\ \E c \in Clients, a \in StreamArgs, out \in OutputArgs :
             SynthCall(c, a, out)
    \/ SynthDrain
    \/ SynthOutput
    \/ SynthWrite
    \/ SynthClose

SpecSynth == Init /\ [][NextSynth]_vars

(***************************************************************************)
(* get_available_speakers(): C2, C4 (checked under SpecSpeakers)           *)
(***************************************************************************)

\* C2, as stated: once get_available_speakers() has been invoked on a handle,
\* that handle has issued exactly one GET /speakers in total.
C2_ExactlyOneGet == \A c \in Clients : calls[c] >= 1 => gets[c] = 1

\* C2, amended: an invocation issues a GET exactly when no earlier invocation
\* on the same handle has succeeded.  While a handle has no cache every one of
\* its invocations issued its own GET, whatever the other handle holds; once
\* it has a cache, no step issues another GET for it or changes the cache.
C2_OneGetOncePopulated ==
    /\ [](\A c \in Clients :
            /\ ~available_speakers[c].cached => gets[c] = calls[c]
            /\ available_speakers[c].cached => gets[c] >= 1 /\ gets[c] <= calls[c])
    /\ [][\A c \in Clients :
            available_speakers[c].cached =>
                /\ gets'[c] = gets[c]
                /\ available_speakers'[c] = available_speakers[c]]_vars

\* a handle answered its second invocation from the cache after one GET, and
\* the other handle has issued a GET of its own
C2_Witness ==
    \E c, d \in Clients :
        /\ c # d
        /\ available_speakers[c].cached /\ calls[c] = 2 /\ gets[c] = 1
        /\ gets[d] >= 1

\* C4: the mapping a successful get_available_speakers() stores has one record
\* per speaker id of the response, and the record of an id has that id and, as
\* default_style, the id of the first style the server listed for that speaker
\* (for an id listed twice: of its last object, the one the mapping keeps).
C4_DefaultStyleIsFirst ==
    \A c \in Clients :
        available_speakers[c].cached =>
            LET m == available_speakers[c].map
                r == fetched[c]
            IN  /\ DOMAIN m = {r[i].id : i \in DOMAIN r}
                /\ \A i \in DOMAIN r :
                      /\ r[i].styles # <<>>
                      /\ m[r[i].id].id = r[i].id
                      /\ (\A j \in DOMAIN r : j > i => r[j].id # r[i].id) =>
                            m[r[i].id].default_style = Head(r[i].styles).id

\* a cache built from a speaker whose two styles differ, next to another speaker
C4_Witness ==
    \E c \in Clients :
        /\ available_speakers[c].cached
        /\ Len(fetched[c]) = 2
        /\ fetched[c][1].id # fetched[c][2].id
        /\ Len(fetched[c][1].styles) = 2
        /\ fetched[c][1].styles[1].id # fetched[c][1].styles[2].id

(***************************************************************************)
(* stream(): C1, C3, C6, C7, C9 (checked under SpecStream)                 *)
(***************************************************************************)
BadEncodingOrRate(a) ==
    \/ a.encoding \notin {"mp3", "wav", "pcm"}
    \/ ~(a.sample_rate.t \in {"int", "float"} /\ ~a.sample_rate.half
         /\ a.sample_rate.n \in {8000, 16000, 24000})

VoiceryErrors == {"VoiceryError:" \o arg :
                    arg \in {"speaker", "style", "encoding", "sample_rate"}}

\* C1, as stated: every call of stream() with an unsupported encoding or
\* sample_rate raises the domain error, and sends nothing.
C1_CallRaises ==
    \A i \in DOMAIN gens :
        BadEncodingOrRate(gens[i].args) =>
            /\ gens[i].pc = "raised"
            /\ gens[i].error \in VoiceryErrors
            /\ gens[i].request = <<>>

\* C1, amended: the call itself returns a generator; once that generator has
\* been advanced, a call with an unsupported encoding or sample_rate has raised
\* VoiceryError, and at no point has it sent a POST /generate, whatever the
\* other arguments and the credential.
C1_RaisesWhenAdvanced ==
    \A i \in DOMAIN gens :
        BadEncodingOrRate(gens[i].args) =>
            /\ gens[i].request = <<>>
            /\ gens[i].status = 0
            /\ gens[i].yielded = <<>>
            /\ gens[i].nexts >= 1 =>
                  gens[i].pc = "raised" /\ gens[i].error \in VoiceryErrors

\* a call of a handle with a credential, all else valid, raised on its encoding
C1_Witness ==
    \E i \in DOMAIN gens :
        /\ gens[i].error = "VoiceryError:encoding"
        /\ key[gens[i].client] # "None"
        /\ posts = 0

\* C3: the body of the POST /generate of a call has exactly the fields text,
\* speaker, encoding, sampleRate and ssml, and style exactly when a style was
\* passed; they hold the text, the speaker's id, the encoding, the sample rate
\* as an integer, the ssml flag as a boolean and the style's id; a record and
\* its raw id give the same body.
C3_RequestBody ==
    \A i \in DOMAIN gens :
        LET a == gens[i].args
            asIds == [a EXCEPT !.speaker.t = "str",
                               !.style.t = IF @ = "None" THEN "None" ELSE "str"]
        IN  /\ (gens[i].nexts >= 1 /\ ~BadEncodingOrRate(a)
                  /\ a.speaker.t \in {"str", "Speaker"}
                  /\ a.style.t \in {"None", "str", "Style"})
                    => Len(gens[i].request) = 1
            /\ gens[i].request # <<>> =>
                  LET d == gens[i].request[1].data
                  IN  /\ DOMAIN d = {"text", "speaker", "encoding", "sampleRate", "ssml"}
                                    \cup (IF a.style.t = "None" THEN {} ELSE {"style"})
                      /\ d.text = a.text
                      /\ d.speaker = a.speaker.id
                      /\ d.encoding = a.encoding
                      /\ d.sampleRate = a.sample_rate.n
                      /\ d.ssml \in BOOLEAN
                      /\ a.ssml.t = "bool" => d.ssml = (a.ssml.v = "True")
                      /\ a.ssml.t = "str" => d.ssml = (a.ssml.v # "")
                      /\ a.style.t # "None" => d.style = a.style.id
                      /\ d = RequestData(asIds)

\* a request sent for a Speaker record and a Style record, with ssml set
C3_Witness ==
    \E i \in DOMAIN gens :
        /\ gens[i].request # <<>>
        /\ gens[i].args.speaker.t = "Speaker"
        /\ gens[i].args.style.t = "Style"
        /\ gens[i].args.ssml = [t |-> "bool", v |-> "True"]
        /\ gens[i].args.sample_rate.n = 16000

\* C6, as stated: a speaker argument that is neither a known speaker identifier
\* nor a Speaker record fails, and no request is sent for it.
C6_OnlyKnownSpeakers ==
    \A i \in DOMAIN gens :
        ~(\/ gens[i].args.speaker.t = "Speaker"
          \/ /\ gens[i].args.speaker.t = "str"
             /\ gens[i].args.speaker.id \in KnownSpeakerIds) =>
            /\ gens[i].request = <<>>
            /\ gens[i].pc \in {"created", "raised"}

\* C6, amended: the speaker must be a string (any string: it is not compared
\* with the known speakers) or a Speaker record, whose id is used; with any
\* other speaker the first advance of the generator raises VoiceryError naming
\* 'speaker', and no request is sent.
C6_SpeakerStrOrRecord ==
    \A i \in DOMAIN gens :
        /\ gens[i].args.speaker.t \notin {"str", "Speaker"} =>
              /\ gens[i].request = <<>>
              /\ gens[i].nexts >= 1 =>
                    gens[i].pc = "raised" /\ gens[i].error = "VoiceryError:speaker"
        /\ gens[i].args.speaker.t \in {"str", "Speaker"} =>
              /\ gens[i].error # "VoiceryError:speaker"
              /\ gens[i].request # <<>> =>
                    gens[i].request[1].data.speaker = gens[i].args.speaker.id

\* a call with a speaker of another type has raised
C6_Witness ==
    \E i \in DOMAIN gens :
        /\ gens[i].args.speaker.t = "int"
        /\ gens[i].pc = "raised"

\* C7, as stated (its part on error responses): stream() yields no chunk taken
\* from the response of a failed request.
C7_NoChunkOfFailedResponse ==
    \A i \in DOMAIN gens :
        gens[i].status \notin {0, 200} =>
            gens[i].yielded = <<>> /\ gens[i].pc = "raised"

\* C9: a generator that was never advanced has validated nothing, raised
\* nothing and sent nothing, and a call leaves its generator in that state;
\* a request is sent only by an advance, only after the validation has passed,
\* once per generator, and every call whose generator was advanced past the
\* validation has sent its own.
C9_LazyGenerator ==
    /\ posts = started
    /\ posts <= streams
    /\ \A i \in DOMAIN gens :
          /\ gens[i].nexts = 0 =>
                /\ gens[i].pc = "created"
                /\ gens[i].error = ""
                /\ gens[i].request = <<>>
          /\ gens[i].nexts >= 1 =>
                /\ gens[i].pc # "created"
                /\ (gens[i].request # <<>>) = (Validate(gens[i].args) = "ok")
          /\ Len(gens[i].request) <= 1

\* two calls, one after the other, each advanced: two requests
C9_Witness == streams = 2 /\ posts = 2

(***************************************************************************)
(* synthesize(): C5, C8, C10 (checked under SpecSynth)                     *)
(***************************************************************************)
\* the bytes of a sequence of chunks, first chunk first
RECURSIVE Concatenation(_)
Concatenation(chunks) ==
    IF chunks = <<>> THEN <<>>
    ELSE Concatenation(SubSeq(chunks, 1, Len(chunks) - 1)) \o chunks[Len(chunks)]

\* C5: a synthesize() that has returned drained its generator to the end; with
\* output unset it returned the bytes of all chunks in arrival order; with a
\* path it returned None and the file holds exactly those bytes; with a handle
\* it returned None and the handle received exactly those bytes.
C5_SynthesizeDelivers ==
    (syn # <<>> /\ Current.pc = "returned") =>
        LET bytes == Concatenation(Current.gen.yielded)
        IN  /\ Current.gen.pc = "done"
            /\ Current.output.t = "None" =>
                  /\ Current.ret = [t |-> "bytes", v |-> bytes]
                  /\ files = Current.filesAtCall
                  /\ sink = Current.sinkAtCall
            /\ Current.output.t = "str" =>
                  /\ Current.ret = NoneValue
                  /\ files = [Current.filesAtCall EXCEPT ![Current.output.path] =
                                [exists |-> TRUE, content |-> bytes]]
                  /\ sink = Current.sinkAtCall
            /\ Current.output.t = "handle" =>
                  /\ Current.ret = NoneValue
                  /\ sink = Current.sinkAtCall \o bytes
                  /\ files = Current.filesAtCall

\* two chunks of different bytes were written to a file
C5_Witness ==
    /\ syn # <<>>
    /\ Current.pc = "returned"
    /\ Current.output.t = "str"
    /\ Len(Current.gen.yielded) = 2
    /\ Current.gen.yielded[1] # Current.gen.yielded[2]
    /\ Len(files[Current.output.path].content) >= 2

\* C8, as stated: the path is opened for exclusive write, so synthesize() never
\* gets a handle of a path that existed already.
C8_ExclusiveOpen ==
    \A k \in DOMAIN syn :
        (syn[k].output.t = "str" /\ syn[k].pc \in {"opened", "written", "returned"})
            => ~syn[k].existed

\* C8, amended: the path is opened for binary write, which creates the file or
\* truncates an existing one (no exclusive creation); the only handle ever open
\* is that of the running call's path, between its open and the end of the with
\* block, and none is open once synthesize() has returned or raised, a failed
\* write included.
C8_HandleReleased ==
    /\ ~Running => handles = {}
    /\ Running =>
          /\ Current.pc \in {"opened", "written"} =>
                /\ Current.output.t = "str"
                /\ handles = {Current.output.path}
                /\ files[Current.output.path].exists
          /\ Current.pc \notin {"opened", "written"} => handles = {}
    /\ \A k \in DOMAIN syn :
          (syn[k].output.t = "str" /\ syn[k].pc \in {"opened", "written", "returned"})
              => syn[k].existed = syn[k].filesAtCall[syn[k].output.path].exists

\* the write to a new file failed: the file was created, the call has raised
C8_Witness ==
    /\ syn # <<>>
    /\ Current.pc = "raised"
    /\ Current.error = "OSError"
    /\ Current.output = [t |-> "str", path |-> "new.mp3"]
    /\ files["new.mp3"].exists
    /\ Current.data # <<>>

\* C10: while synthesize() drains the stream, and when the stream has raised,
\* nothing was done to the output: the files and the caller's handle are as
\* they were at the call, no handle is open, and synthesize() raises the
\* stream's error.
C10_NoPartialOutput ==
    syn # <<>> =>
        /\ Current.pc = "draining" =>
              /\ files = Current.filesAtCall
              /\ sink = Current.sinkAtCall
              /\ handles = {}
        /\ Current.gen.pc = "raised" =>
              /\ Current.pc = "raised"
              /\ Current.error = Current.gen.error
              /\ files = Current.filesAtCall
              /\ sink = Current.sinkAtCall
              /\ handles = {}

\* the transport failed after a chunk had arrived, the output being a file
\* that exists
C10_Witness ==
    /\ syn # <<>>
    /\ Current.gen.error = "ChunkedEncodingError"
    /\ Current.gen.yielded # <<>>
    /\ Current.output = [t |-> "str", path |-> "old.mp3"]

====
